---- MODULE Spec2Model ----
(***************************************************************************)
(* Model of the scheduler of automatic_pipeline.py: the duplicate check of *)
(* the __main__ block, identify_dependencies, main, run_pipeline and       *)
(* run_stage, executed by the asyncio event loop that asyncio.run drives.  *)
(*                                                                         *)
(* The stage functions are synchronous calls, so a task gives up the loop  *)
(* only at the "await asyncio.gather(...)" of stage 3; the loop runs the   *)
(* handles of its ready queue first-in first-out, one batch (_run_once)    *)
(* after the other.  Configuration indices are 1-based here (Python's      *)
(* config_index + 1).                                                      *)
(***************************************************************************)
EXTENDS Integers, Sequences, FiniteSets, TLC

VARIABLES
    configs,              \* the list of configuration records (after setup_args)
    pc,                   \* "setup" | "rejected" | "loop" | "exited"
    k,                    \* records already processed by the duplicate check
    dst_folder_set,       \* the set the duplicate check fills
    stage3_dependencies,  \* the resolver's result: key -> list of providers
    stage_events,         \* per record, stage -> is the asyncio.Event set
    tstate,               \* state of each run_pipeline task
    stage_num,            \* loop variable of each run_pipeline
    texc,                 \* exception that ended a task
    awaited,              \* the gather of a task's stage-3 wait has returned
    wstate,               \* state of each Event.wait() task, by <<i, d>>
    nfin,                 \* children finished of a task's inner gather
    ready,                \* the loop's ready queue (_ready)
    ntodo,                \* handles left in the current _run_once batch
    running,              \* the run_pipeline task being stepped (0: none)
    stopping,             \* loop.stop() was called
    mstate,               \* main: "NotStarted" | "Waiting" | "Returned" | "Raised"
    outer,                \* result future of main's gather
    nfinished,            \* nfinished of main's gather
    dispatched            \* history: the stage operations invoked, in order

vars == <<configs, pc, k, dst_folder_set, stage3_dependencies, stage_events,
          tstate, stage_num, texc, awaited, wstate, nfin, ready, ntodo,
          running, stopping, mstate, outer, nfinished, dispatched>>

----------------------------------------------------------------------------
(* Bounds of the model *)

MaxConfigs == 3
MaxRefDir == 2
MaxNAdd == 1

\* Stage operations that raise in one run
MaxFailures == 2

\* The stage ranges the records are drawn from: one that meets stage 3 after
\* an earlier stage and goes on, and one without stage 3.
StageRanges == {<<2, 4>>, <<4, 5>>}

PipelineTypes == {"booru", "screenshots"}

\* STAGE_FUNCTIONS has the keys 1..7
NumStages == 7

\* The stage every cross-pipeline wait is about ("stage_num == 3")
SyncStage == 3

\* Record i writes either to a folder of its own or to the first record's
DstDirs(i) == {1, i}

----------------------------------------------------------------------------
(* Pure functions *)

Last(s) == s[Len(s)]

\* range(config.start_stage, config.end_stage + 1)
StageRange(config) == config.start_stage .. config.end_stage

\* line 552: the triple the duplicate check compares
dst_folder(config) ==
    <<config.dst_dir, config.extra_path_component, config.image_type>>

\* mutant: the exemption of line 458 left out
NeedsDependencies_Always(config) == TRUE

\* line 458: the records that get a dependency list
NeedsDependencies(config) ==
    config.pipeline_type # "booru" \/ config.n_add_to_ref_per_character <= 0

\* mutant: the test of the count of line 464 left out
IsProviderFor_AnyCount(dep_config, config) ==
    /\ dep_config.character_ref_dir = config.character_ref_dir
    /\ dep_config.pipeline_type = "booru"

\* mutant: the test of the pipeline type of line 463 left out
IsProviderFor_AnyType(dep_config, config) ==
    /\ dep_config.character_ref_dir = config.character_ref_dir
    /\ dep_config.n_add_to_ref_per_character > 0

\* lines 462-464: dep_config is a provider for config
IsProviderFor(dep_config, config) ==
    /\ dep_config.character_ref_dir = config.character_ref_dir
    /\ dep_config.pipeline_type = "booru"
    /\ dep_config.n_add_to_ref_per_character > 0

\* lines 459-465: the list comprehension, j running over enumerate(configs)
RECURSIVE DependentConfigs(_, _, _)
DependentConfigs(cfgs, i, j) ==
    IF j > Len(cfgs) THEN <<>>
    ELSE (IF IsProviderFor(cfgs[j], cfgs[i]) THEN <<j>> ELSE <<>>)
         \o DependentConfigs(cfgs, i, j + 1)

\* lines 455-468
identify_dependencies(cfgs) ==
    LET keys == {i \in 1..Len(cfgs) :
                    /\ NeedsDependencies(cfgs[i])
                    /\ DependentConfigs(cfgs, i, 1) # <<>>}
    IN [i \in keys |-> DependentConfigs(cfgs, i, 1)]

\* lines 512-515: one unset Event per stage of the range of each record
NewStageEvents(cfgs) ==
    [i \in 1..Len(cfgs) |-> [s \in StageRange(cfgs[i]) |-> FALSE]]

Range(s) == {s[x] : x \in 1..Len(s)}

----------------------------------------------------------------------------
(* Initial states *)

ConfigRecords(i) ==
    [pipeline_type : PipelineTypes,
     character_ref_dir : 1..MaxRefDir,
     n_add_to_ref_per_character : 0..MaxNAdd,
     start_stage : {r[1] : r \in StageRanges},
     end_stage : {r[2] : r \in StageRanges},
     dst_dir : DstDirs(i),
     extra_path_component : {""},
     image_type : {"screenshots"}]

ValidConfig(c) ==
    /\ <<c.start_stage, c.end_stage>> \in StageRanges
    /\ 1 <= c.start_stage /\ c.start_stage <= c.end_stage
    /\ c.end_stage <= NumStages

ValidRecords(i) == {c \in ConfigRecords(i) : ValidConfig(c)}

RECURSIVE ListsOfLen(_)
ListsOfLen(n) ==
    IF n = 0 THEN {<<>>}
    ELSE {Append(l, c) : l \in ListsOfLen(n - 1), c \in ValidRecords(n)}

\* line 538: the list holds at least one record
ConfigLists == UNION {ListsOfLen(n) : n \in 1..MaxConfigs}

Handle(kind, i, d) == [kind |-> kind, i |-> i, d |-> d]

Init ==
    /\ configs \in ConfigLists
    /\ pc = "setup"
    /\ k = 0
    /\ dst_folder_set = {}
    /\ stage3_dependencies = <<>>
    /\ stage_events = <<>>
    /\ tstate = [i \in 1..Len(configs) |-> "NotStarted"]
    /\ stage_num = [i \in 1..Len(configs) |-> configs[i].start_stage]
    /\ texc = [i \in 1..Len(configs) |-> "none"]
    /\ awaited = [i \in 1..Len(configs) |-> FALSE]
    /\ wstate = <<>>
    /\ nfin = [i \in 1..Len(configs) |-> 0]
    /\ ready = <<>>
    /\ ntodo = 0
    /\ running = 0
    /\ stopping = FALSE
    /\ mstate = "NotStarted"
    /\ outer = "pending"
    /\ nfinished = 0
    /\ dispatched = <<>>

----------------------------------------------------------------------------
(* The __main__ block *)

N == Len(configs)

\* mutant: a folder met before is passed over instead of refused
CheckDstFolder_Skip ==
    /\ pc = "setup"
    /\ k < N
    /\ dst_folder_set' = dst_folder_set \cup {dst_folder(configs[k + 1])}
    /\ k' = k + 1
    /\ UNCHANGED <<configs, pc, stage3_dependencies, stage_events, tstate,
                   stage_num, texc, awaited, wstate, nfin, ready, ntodo,
                   running, stopping, mstate, outer, nfinished, dispatched>>

\* lines 550-559: one turn of the loop that checks the output folders
CheckDstFolder ==
    /\ pc = "setup"
    /\ k < N
    /\ LET dst == dst_folder(configs[k + 1]) IN
         IF dst \in dst_folder_set
         THEN /\ pc' = "rejected"          \* raise ValueError
              /\ UNCHANGED <<k, dst_folder_set>>
         ELSE /\ dst_folder_set' = dst_folder_set \cup {dst}
              /\ k' = k + 1
              /\ pc' = pc
    /\ UNCHANGED <<configs, stage3_dependencies, stage_events, tstate,
                   stage_num, texc, awaited, wstate, nfin, ready, ntodo,
                   running, stopping, mstate, outer, nfinished, dispatched>>

\* line 562: asyncio.run creates the task of main and runs the loop
AsyncioRun ==
    /\ pc = "setup"
    /\ k = N
    /\ pc' = "loop"
    /\ ready' = <<Handle("main", 0, 0)>>
    /\ UNCHANGED <<configs, k, dst_folder_set, stage3_dependencies,
                   stage_events, tstate, stage_num, texc, awaited, wstate,
                   nfin, ntodo, running, stopping, mstate, outer, nfinished,
                   dispatched>>

----------------------------------------------------------------------------
(* The event loop *)

\* _run_once runs the handles that are ready when it starts; what they
\* schedule waits for the next turn.  run_forever leaves after the turn in
\* which stop() was called.
CanRun(kind) ==
    /\ pc = "loop"
    /\ running = 0
    /\ ready # <<>>
    /\ (ntodo > 0 \/ ~stopping)
    /\ Head(ready).kind = kind

Batch == IF ntodo > 0 THEN ntodo ELSE Len(ready)

\* the queue after the handle at its head has run and scheduled `new`
Popped(new) == Tail(ready) \o new

RECURSIVE TaskHandles(_, _)
TaskHandles(i, n) ==
    IF i > n THEN <<>> ELSE <<Handle("task", i, 0)>> \o TaskHandles(i + 1, n)

\* lines 508-523, up to the await: the first step of main
MainStep ==
    /\ CanRun("main")
    /\ stage3_dependencies' = identify_dependencies(configs)
    /\ stage_events' = NewStageEvents(configs)
    /\ ready' = Popped(TaskHandles(1, N))
    /\ ntodo' = Batch - 1
    /\ mstate' = "Waiting"
    /\ UNCHANGED <<configs, pc, k, dst_folder_set, tstate, stage_num, texc,
                   awaited, wstate, nfin, running, stopping, outer, nfinished,
                   dispatched>>

\* a step of the task of run_pipeline(config, i): its start, or its wake-up
\* when the gather it awaits has a result
TaskStep(i) ==
    /\ CanRun("task")
    /\ Head(ready).i = i
    /\ tstate[i] \in {"NotStarted", "Waiting"}
    /\ awaited' = [awaited EXCEPT ![i] = (tstate[i] = "Waiting")]
    /\ tstate' = [tstate EXCEPT ![i] = "Running"]
    /\ running' = i
    /\ ready' = Popped(<<>>)
    /\ ntodo' = Batch - 1
    /\ UNCHANGED <<configs, pc, k, dst_folder_set, stage3_dependencies,
                   stage_events, stage_num, texc, wstate, nfin, stopping,
                   mstate, outer, nfinished, dispatched>>

\* mutant: the wait is made before every stage
MustWait_AnyStage(i) == i \in DOMAIN stage3_dependencies

\* line 495: the test that guards the wait
MustWait(i) ==
    stage_num[i] = SyncStage /\ i \in DOMAIN stage3_dependencies

\* mutant: only the first provider is waited for
WaitTargets_FirstOnly(i) == <<stage3_dependencies[i][1]>>

\* lines 499-500: the signals the gather of record i waits for
WaitTargets(i) == stage3_dependencies[i]

RECURSIVE WaitHandles(_, _, _)
WaitHandles(i, deps, x) ==
    IF x > Len(deps) THEN <<>>
    ELSE <<Handle("wait", i, deps[x])>> \o WaitHandles(i, deps, x + 1)

\* lines 495-502: build the Event.wait() coroutines and gather them.
\* stage_events[dep_index][3] raises KeyError when the provider's range has
\* no stage 3; the exception ends run_pipeline.
AwaitDependencies(i) ==
    /\ pc = "loop"
    /\ running = i
    /\ stage_num[i] <= configs[i].end_stage
    /\ MustWait(i)
    /\ ~awaited[i]
    /\ IF \E d \in Range(WaitTargets(i)) : SyncStage \notin DOMAIN stage_events[d]
       THEN /\ tstate' = [tstate EXCEPT ![i] = "Failed"]
            /\ texc' = [texc EXCEPT ![i] = "KeyError"]
            /\ ready' = Append(ready, Handle("done", i, 0))
            /\ UNCHANGED wstate
       ELSE /\ tstate' = [tstate EXCEPT ![i] = "Waiting"]
            /\ wstate' = [w \in DOMAIN wstate \cup
                                {<<i, d>> : d \in Range(WaitTargets(i))} |->
                            IF w \in DOMAIN wstate THEN wstate[w] ELSE "created"]
            /\ ready' = ready \o WaitHandles(i, WaitTargets(i), 1)
            /\ UNCHANGED texc
    /\ running' = 0
    /\ UNCHANGED <<configs, pc, k, dst_folder_set, stage3_dependencies,
                   stage_events, stage_num, awaited, nfin, ntodo, stopping,
                   mstate, outer, nfinished, dispatched>>

\* Event.set(): the waiters of the event are released.  (A provider never
\* waits, so it has set its events before the loop reaches the first wait
\* task: no reachable set() finds a waiter.)
RECURSIVE Released(_, _, _)
Released(i, s, ws) ==
    IF ws = {} THEN <<>>
    ELSE LET w == CHOOSE x \in ws : \A y \in ws : x[1] <= y[1]
         IN <<Handle("wait", w[1], w[2])>> \o Released(i, s, ws \ {w})

Waiters(i, s) ==
    {w \in DOMAIN wstate : w[2] = i /\ s = SyncStage /\ wstate[w] = "waiting"}

\* mutant: the loop steps by two
NextStage_Skip(s) == s + 2

\* the stage after stage s of a run_pipeline loop
NextStage(s) == s + 1

\* mutant: set() is reached also when the stage function raised
StageEventsAfter_Always(i, ok) ==
    [stage_events EXCEPT ![i][stage_num[i]] = TRUE]

\* mutant: set() marks the event of the stage after the one that returned
StageEventsAfter_OffByOne(i, ok) ==
    IF ok
    THEN [j \in DOMAIN stage_events |->
            [s \in DOMAIN stage_events[j] |->
                stage_events[j][s] \/ (j = i /\ s = stage_num[i] + 1)]]
    ELSE stage_events

\* mutant: set() marks the event of the stage in every record that has it
StageEventsAfter_Broadcast(i, ok) ==
    IF ok
    THEN [j \in DOMAIN stage_events |->
            [s \in DOMAIN stage_events[j] |->
                stage_events[j][s] \/ s = stage_num[i]]]
    ELSE stage_events

\* mutant: a stage function that raises clears the events of its record
StageEventsAfter_ResetOnFailure(i, ok) ==
    IF ok THEN [stage_events EXCEPT ![i][stage_num[i]] = TRUE]
    ELSE [stage_events EXCEPT ![i] = [s \in DOMAIN @ |-> FALSE]]

\* mutant: set() flips the flag
SetEvent_Toggle(events, i, s) == [events EXCEPT ![i][s] = ~@]

\* line 483: Event.set() on the event of stage s of record i
SetEvent(events, i, s) == [events EXCEPT ![i][s] = TRUE]

\* lines 482-483: set() is reached only when the stage function returned
StageEventsAfter(i, ok) ==
    IF ok THEN SetEvent(stage_events, i, stage_num[i])
    ELSE stage_events

\* lines 471-483 and 504-505: run_stage calls the stage function; when it
\* returns, the event of the stage is set and the loop of run_pipeline goes
\* on, or ends after the last stage; when it raises, the task ends with the
\* exception and nothing is set.
RunStage(i, ok) ==
    /\ pc = "loop"
    /\ running = i
    /\ stage_num[i] <= configs[i].end_stage
    /\ MustWait(i) => awaited[i]
    /\ ok \/ Cardinality({j \in 1..N : texc[j] = "StageError"}) < MaxFailures
    /\ dispatched' = Append(dispatched, <<i, stage_num[i]>>)
    /\ IF ok
       THEN LET s == stage_num[i]
                last == NextStage(s) > configs[i].end_stage
            IN
            /\ wstate' = [w \in DOMAIN wstate |->
                            IF w \in Waiters(i, s) THEN "released" ELSE wstate[w]]
            /\ stage_num' = [stage_num EXCEPT ![i] = NextStage(s)]
            /\ tstate' = [tstate EXCEPT ![i] =
                            IF last THEN "Completed" ELSE "Running"]
            /\ running' = IF last THEN 0 ELSE i
            /\ ready' = ready \o Released(i, s, Waiters(i, s))
                              \o (IF last THEN <<Handle("done", i, 0)>> ELSE <<>>)
            /\ UNCHANGED texc
       ELSE /\ tstate' = [tstate EXCEPT ![i] = "Failed"]
            /\ texc' = [texc EXCEPT ![i] = "StageError"]
            /\ running' = 0
            /\ ready' = Append(ready, Handle("done", i, 0))
            /\ UNCHANGED <<wstate, stage_num>>
    /\ stage_events' = StageEventsAfter(i, ok)
    /\ UNCHANGED <<configs, pc, k, dst_folder_set, stage3_dependencies,
                   awaited, nfin, ntodo, stopping, mstate, outer, nfinished>>

\* mutant: wait() returns without reading the flag
EventIsSet_Always(d) == TRUE

\* mutant: wait() does not read the flag and always suspends
EventIsSet_Never(d) == FALSE

\* Event.wait() reads the flag of the event of stage 3 of record d
EventIsSet(d) == stage_events[d][SyncStage]

\* mutant: gather gives its result with the first child that is done
GatherComplete_Any(n, total) == n >= 1

\* gather gives its result when the last of its children is done
GatherComplete(n, total) == n = total

\* line 499: a step of the task of stage_events[d][3].wait(), gathered by
\* record i: it returns at once when the event is set, and else waits for
\* set(); released, it returns
WaitStep(i, d) ==
    /\ CanRun("wait")
    /\ Head(ready).i = i /\ Head(ready).d = d
    /\ IF EventIsSet(d) \/ wstate[<<i, d>>] = "released"
       THEN /\ wstate' = [wstate EXCEPT ![<<i, d>>] = "done"]
            /\ ready' = Popped(<<Handle("waited", i, d)>>)
       ELSE /\ wstate' = [wstate EXCEPT ![<<i, d>>] = "waiting"]
            /\ ready' = Popped(<<>>)
    /\ ntodo' = Batch - 1
    /\ UNCHANGED <<configs, pc, k, dst_folder_set, stage3_dependencies,
                   stage_events, tstate, stage_num, texc, awaited, nfin,
                   running, stopping, mstate, outer, nfinished, dispatched>>

\* lines 497-502: the done callback of the inner gather; with its last
\* child done the gather has its result and the awaiting task is woken
GatherCallback(i, d) ==
    /\ CanRun("waited")
    /\ Head(ready).i = i /\ Head(ready).d = d
    /\ nfin' = [nfin EXCEPT ![i] = @ + 1]
    /\ ready' = Popped(IF GatherComplete(nfin[i] + 1, Len(WaitTargets(i)))
                       THEN <<Handle("task", i, 0)>> ELSE <<>>)
    /\ ntodo' = Batch - 1
    /\ UNCHANGED <<configs, pc, k, dst_folder_set, stage3_dependencies,
                   stage_events, tstate, stage_num, texc, awaited, wstate,
                   running, stopping, mstate, outer, nfinished, dispatched>>

\* mutant: main cancels the runners that are not done when one has failed
MainGatherCallback_CancelSiblings(i) ==
    /\ CanRun("done")
    /\ Head(ready).i = i
    /\ nfinished' = nfinished + 1
    /\ IF outer # "pending"
       THEN /\ UNCHANGED <<outer, tstate, texc>>
            /\ ready' = Popped(<<>>)
       ELSE IF tstate[i] = "Failed"
       THEN /\ outer' = "exception"
            /\ tstate' = [j \in DOMAIN tstate |->
                            IF tstate[j] \in {"Completed", "Failed"}
                            THEN tstate[j] ELSE "Cancelled"]
            /\ texc' = [j \in DOMAIN texc |->
                            IF tstate[j] \in {"Completed", "Failed"}
                            THEN texc[j] ELSE "CancelledError"]
            /\ ready' = SelectSeq(Popped(<<Handle("wakeup", 0, 0)>>),
                                  LAMBDA h : h.kind \notin {"task", "wait", "waited"})
       ELSE IF nfinished + 1 = N
       THEN /\ outer' = "result"
            /\ UNCHANGED <<tstate, texc>>
            /\ ready' = Popped(<<Handle("wakeup", 0, 0)>>)
       ELSE /\ UNCHANGED <<outer, tstate, texc>>
            /\ ready' = Popped(<<>>)
    /\ ntodo' = Batch - 1
    /\ UNCHANGED <<configs, pc, k, dst_folder_set, stage3_dependencies,
                   stage_events, stage_num, awaited, wstate, nfin, running,
                   stopping, mstate, dispatched>>

\* lines 518-523: the done callback of main's gather (return_exceptions is
\* False): the first exception is passed on at once, the result only when
\* every task is done; a callback that finds the future done changes nothing
MainGatherCallback(i) ==
    /\ CanRun("done")
    /\ Head(ready).i = i
    /\ nfinished' = nfinished + 1
    /\ IF outer # "pending"
       THEN /\ UNCHANGED outer
            /\ ready' = Popped(<<>>)
       ELSE IF tstate[i] = "Failed"
       THEN /\ outer' = "exception"
            /\ ready' = Popped(<<Handle("wakeup", 0, 0)>>)
       ELSE IF GatherComplete(nfinished + 1, N)
       THEN /\ outer' = "result"
            /\ ready' = Popped(<<Handle("wakeup", 0, 0)>>)
       ELSE /\ UNCHANGED outer
            /\ ready' = Popped(<<>>)
    /\ ntodo' = Batch - 1
    /\ UNCHANGED <<configs, pc, k, dst_folder_set, stage3_dependencies,
                   stage_events, tstate, stage_num, texc, awaited, wstate,
                   nfin, running, stopping, mstate, dispatched>>

\* lines 518-523, after the await: main returns or raises what the gather
\* holds; the task of main is done and run_until_complete's callback is
\* scheduled
MainWakeup ==
    /\ CanRun("wakeup")
    /\ mstate' = IF outer = "result" THEN "Returned" ELSE "Raised"
    /\ ready' = Popped(<<Handle("stop", 0, 0)>>)
    /\ ntodo' = Batch - 1
    /\ UNCHANGED <<configs, pc, k, dst_folder_set, stage3_dependencies,
                   stage_events, tstate, stage_num, texc, awaited, wstate,
                   nfin, running, stopping, outer, nfinished, dispatched>>

\* line 562: _run_until_complete_cb calls loop.stop()
StopCallback ==
    /\ CanRun("stop")
    /\ stopping' = TRUE
    /\ ready' = Popped(<<>>)
    /\ ntodo' = Batch - 1
    /\ UNCHANGED <<configs, pc, k, dst_folder_set, stage3_dependencies,
                   stage_events, tstate, stage_num, texc, awaited, wstate,
                   nfin, running, mstate, outer, nfinished, dispatched>>

Terminal == {"Completed", "Failed", "Cancelled"}

\* line 562: the loop has left run_forever; asyncio.run cancels the tasks
\* that are not done (_cancel_all_tasks), lets them end and closes the loop.
\* A cancelled run_pipeline gets CancelledError at its await and ends.
CancelAllTasks ==
    /\ pc = "loop"
    /\ running = 0
    /\ ntodo = 0
    /\ stopping
    /\ tstate' = [i \in DOMAIN tstate |->
                    IF tstate[i] \in Terminal THEN tstate[i] ELSE "Cancelled"]
    /\ texc' = [i \in DOMAIN texc |->
                    IF tstate[i] \in Terminal THEN texc[i] ELSE "CancelledError"]
    /\ wstate' = [w \in DOMAIN wstate |->
                    IF wstate[w] = "done" THEN "done" ELSE "cancelled"]
    /\ ready' = <<>>
    /\ pc' = "exited"
    /\ UNCHANGED <<configs, k, dst_folder_set, stage3_dependencies,
                   stage_events, stage_num, awaited, nfin, ntodo, running,
                   stopping, mstate, outer, nfinished, dispatched>>

Next ==
    \/ CheckDstFolder
    \/ AsyncioRun
    \/ MainStep
    \/ \E i \in 1..N : TaskStep(i)
    \/ \E i \in 1..N : AwaitDependencies(i)
    \/ \E i \in 1..N : RunStage(i, TRUE)
    \/ \E i \in 1..N : RunStage(i, FALSE)
    \/ \E i \in 1..N, d \in 1..N : WaitStep(i, d)
    \/ \E i \in 1..N, d \in 1..N : GatherCallback(i, d)
    \/ \E i \in 1..N : MainGatherCallback(i)
    \/ MainWakeup
    \/ StopCallback
    \/ CancelAllTasks

Spec == Init /\ [][Next]_vars

\* The program takes its steps by itself: the __main__ block runs on, and
\* run_forever calls _run_once as long as it was not stopped; a stage function
\* returns or raises.  A step that stays possible is taken.
FairSpec == Spec /\ WF_vars(Next)

----------------------------------------------------------------------------
(* Vocabulary of the properties *)

\* a record that builds the reference directory
Contributor(c) == c.pipeline_type = "booru" /\ c.n_add_to_ref_per_character > 0

\* the providers the specification gives record i
ProvidersOf(i) ==
    {j \in 1..N \ {i} :
        /\ configs[j].character_ref_dir = configs[i].character_ref_dir
        /\ Contributor(configs[j])}

Resolved == mstate # "NotStarted"

\* the stages of record i whose operation was invoked, in order of invocation
RECURSIVE StagesOf(_, _)
StagesOf(i, log) ==
    IF log = <<>> THEN <<>>
    ELSE (IF Head(log)[1] = i THEN <<Head(log)[2]>> ELSE <<>>)
         \o StagesOf(i, Tail(log))

Dispatched(i, s) == <<i, s>> \in Range(dispatched)

SignalDone(i, s) ==
    /\ i \in DOMAIN stage_events
    /\ s \in DOMAIN stage_events[i]
    /\ stage_events[i][s]

\* this step invokes the operation of stage s of record i
Dispatches(i, s) == dispatched' = Append(dispatched, <<i, s>>)

----------------------------------------------------------------------------
(* C1: whenever the operation of stage 3 of a record that has a dependency  *)
(* list is invoked, the stage-3 signal of every provider on the list is     *)
(* done already, in the state the invocation starts from.                   *)
C1_SyncAfterAllProviders ==
    [][\A d \in DOMAIN stage3_dependencies :
          Dispatches(d, SyncStage) =>
              \A p \in Range(stage3_dependencies[d]) : SignalDone(p, SyncStage)]_vars

\* a record with two providers has had its stage 3 invoked
C1_Witness ==
    \E d \in DOMAIN stage3_dependencies :
        /\ Len(stage3_dependencies[d]) >= 2
        /\ Dispatched(d, SyncStage)

(* C2: the stages invoked for a record are start_stage, start_stage + 1, ... *)
(* in this order, without gap or repetition and never beyond end_stage; a    *)
(* stage is invoked only when the signal of the stage before it is done; a   *)
(* Completed runner has had every stage invoked and its last signal is done. *)
C2_StagesInOrder ==
    \A i \in 1..N :
        LET st == StagesOf(i, dispatched) IN
        /\ \A x \in 1..Len(st) :
              /\ st[x] = configs[i].start_stage + x - 1
              /\ st[x] <= configs[i].end_stage
              /\ x > 1 => SignalDone(i, st[x] - 1)
        /\ tstate[i] = "Completed" =>
              /\ Len(st) = configs[i].end_stage - configs[i].start_stage + 1
              /\ SignalDone(i, configs[i].end_stage)

\* a runner with three stages is Completed
C2_Witness ==
    \E i \in 1..N :
        /\ tstate[i] = "Completed"
        /\ configs[i].end_stage >= configs[i].start_stage + 2

(* C3: the mapping identify_dependencies returns has as keys exactly the     *)
(* records that are not contributors and have a provider, and gives each key *)
(* the list of all its providers, each once and no other index.              *)
C3_ResolverExact ==
    Resolved =>
        /\ DOMAIN stage3_dependencies =
              {i \in 1..N : ~Contributor(configs[i]) /\ ProvidersOf(i) # {}}
        /\ \A i \in DOMAIN stage3_dependencies :
              /\ Range(stage3_dependencies[i]) = ProvidersOf(i)
              /\ Len(stage3_dependencies[i]) = Cardinality(ProvidersOf(i))
              /\ i \notin Range(stage3_dependencies[i])

\* the resolver has run on a list with a key of two providers, a record that
\* is no key, and a contributor with no count in the directory of a provider
C3_Witness ==
    /\ Resolved
    /\ \E i \in DOMAIN stage3_dependencies : Len(stage3_dependencies[i]) = 2
    /\ \E i \in 1..N : i \notin DOMAIN stage3_dependencies
    /\ \E i \in DOMAIN stage3_dependencies :
          configs[i].pipeline_type = "booru"

(* C4: a contributor (booru with a positive count) is never a key of the     *)
(* resolver's result and never waits: it creates no wait task and is never   *)
(* suspended, whatever the other records are.                                *)
C4_ContributorNeverDependent ==
    \A i \in 1..N :
        Contributor(configs[i]) =>
            /\ i \notin DOMAIN stage3_dependencies
            /\ tstate[i] # "Waiting"
            /\ \A w \in DOMAIN wstate : w[1] # i

\* two contributors of one reference directory, one of them past stage 3
C4_Witness ==
    \E i, j \in 1..N :
        /\ i # j
        /\ Contributor(configs[i]) /\ Contributor(configs[j])
        /\ configs[i].character_ref_dir = configs[j].character_ref_dir
        /\ Dispatched(i, SyncStage)

\* the providers the resolver gave record i
DepsOf(i) ==
    IF i \in DOMAIN stage3_dependencies THEN Range(stage3_dependencies[i]) ELSE {}

\* no dependency edge between f and g, in either direction
Unrelated(f, g) == f # g /\ f \notin DepsOf(g) /\ g \notin DepsOf(f)

\* the place in the history of the invocation of stage s of record i (0: none)
Position(i, s) ==
    IF Dispatched(i, s)
    THEN CHOOSE x \in 1..Len(dispatched) : dispatched[x] = <<i, s>>
    ELSE 0

\* the stage invoked last for record i
LastStageOf(i) == Last(StagesOf(i, dispatched))

AllStagesDispatched(i) ==
    Len(StagesOf(i, dispatched)) = configs[i].end_stage - configs[i].start_stage + 1

(* C5: when two records of the list have the same (dst_dir,                  *)
(* extra_path_component, image_type), the program ends in the ValueError of  *)
(* the check: the loop is never started, no event and no task is created and *)
(* no stage operation of any record is invoked.                              *)
SameTriple(a, b) ==
    /\ a.dst_dir = b.dst_dir
    /\ a.extra_path_component = b.extra_path_component
    /\ a.image_type = b.image_type

HasDuplicate ==
    \E i, j \in 1..N : i < j /\ SameTriple(configs[i], configs[j])

C5_DuplicateRejectsBatch ==
    HasDuplicate =>
        /\ pc = "rejected" \/ (pc = "setup" /\ k < N)
        /\ stage_events = <<>>
        /\ dispatched = <<>>
        /\ ready = <<>>
        /\ mstate = "NotStarted"
        /\ \A i \in 1..N : tstate[i] = "NotStarted"

\* the batch is refused at its third record, after a second record that
\* conflicts with none
C5_Witness ==
    /\ pc = "rejected"
    /\ k = 2
    /\ ~SameTriple(configs[1], configs[2])
    /\ ~SameTriple(configs[2], configs[3])

(* C6: the failure of a stage operation of a record f aborts no record g     *)
(* without a dependency edge to f.  A runner is cancelled only when one of   *)
(* its own providers has failed; and when the program ends, every g that is  *)
(* unrelated to the failed f, whose own operations and wait did not raise    *)
(* and none of whose providers failed, is Completed with every stage of its  *)
(* range invoked.                                                            *)
C6_UnrelatedUnaffected ==
    /\ \A g \in 1..N :
          tstate[g] = "Cancelled" => \E p \in DepsOf(g) : tstate[p] = "Failed"
    /\ pc = "exited" =>
          \A f, g \in 1..N :
              ( /\ texc[f] = "StageError"
                /\ Unrelated(f, g)
                /\ texc[g] \notin {"StageError", "KeyError"}
                /\ \A p \in DepsOf(g) : tstate[p] # "Failed" )
              => tstate[g] = "Completed" /\ AllStagesDispatched(g)

\* f failed while the unrelated g was suspended at its wait for another
\* record (after g's stage 2, before g's stage 3), and g is Completed
C6_Witness ==
    /\ pc = "exited"
    /\ \E f, g \in 1..N :
          /\ texc[f] = "StageError"
          /\ Unrelated(f, g)
          /\ DepsOf(g) # {}
          /\ tstate[g] = "Completed"
          /\ Dispatched(g, SyncStage - 1)
          /\ Position(g, SyncStage - 1) < Position(f, LastStageOf(f))
          /\ Position(f, LastStageOf(f)) < Position(g, SyncStage)

(* C7 *)
MainFinishes == mstate = "Waiting" /\ mstate' \in {"Returned", "Raised"}

\* C7 as claimed: when main finishes, every runner is Completed or Failed
C7_Original ==
    [][MainFinishes => \A i \in 1..N : tstate'[i] \in {"Completed", "Failed"}]_vars

(* C7, amended: main returns normally only when every runner is Completed;   *)
(* when main raises, no runner is NotStarted or in a stage, but runners may  *)
(* still be suspended at their stage-3 wait; the program ends only with      *)
(* every runner Completed, Failed or Cancelled.                              *)
C7_MainAfterRunners ==
    /\ [][MainFinishes =>
            /\ \A i \in 1..N : tstate'[i] \in {"Completed", "Failed", "Waiting"}
            /\ mstate' = "Returned" => \A i \in 1..N : tstate'[i] = "Completed"
            /\ mstate' = "Raised" => \E i \in 1..N : tstate'[i] = "Failed"]_vars
    /\ [](pc = "exited" => \A i \in 1..N : tstate[i] \in Terminal)

\* main has raised and a runner is suspended at its wait
C7_Witness ==
    /\ mstate = "Raised"
    /\ ~stopping
    /\ \E i \in 1..N : tstate[i] = "Waiting"

(* C8 *)
FailedBeforeSignal(p) == tstate[p] = "Failed" /\ ~SignalDone(p, SyncStage)

\* d is suspended at its wait for a provider that failed before its signal
Stalled(d) ==
    /\ tstate[d] = "Waiting"
    /\ \E p \in DepsOf(d) : FailedBeforeSignal(p)

\* C8 as claimed: such a dependent stays at its wait for ever
C8_Original ==
    [][\A d \in 1..N : Stalled(d) => tstate'[d] = "Waiting"]_vars

(* C8, amended: a dependent that waits on the signal of a provider that      *)
(* failed before marking it never has its stage 3 invoked and is never       *)
(* Completed; it stays suspended only until the loop is shut down after main *)
(* has raised, and is then cancelled: the program ends with it Cancelled.    *)
C8_StalledIsCancelled ==
    \A d \in 1..N : \A p \in DepsOf(d) :
        (FailedBeforeSignal(p) /\ <<d, p>> \in DOMAIN wstate) =>
            /\ ~Dispatched(d, SyncStage)
            /\ tstate[d] \in {"Waiting", "Cancelled"}
            /\ tstate[d] = "Cancelled" => mstate = "Raised"
            /\ pc = "exited" => tstate[d] = "Cancelled"

\* the program has ended with a cancelled dependent
C8_Witness ==
    /\ pc = "exited"
    /\ \E d \in 1..N : tstate[d] = "Cancelled" /\ Dispatched(d, SyncStage - 1)

(* C9: two runners without a dependency edge between them are not           *)
(* serialized: when i has had some but not all of its stages invoked and    *)
(* the start of j is the next handle of the loop, j can be started, so that *)
(* an operation of j is invoked between two operations of i.                *)
C9_NotSerialized ==
    \A i, j \in 1..N :
        ( /\ pc = "loop"
          /\ Unrelated(i, j)
          /\ running = i
          /\ StagesOf(i, dispatched) # <<>>
          /\ stage_num[i] <= configs[i].end_stage
          /\ tstate[j] = "NotStarted"
          /\ ready # <<>>
          /\ Head(ready) = Handle("task", j, 0) )
        => ENABLED TaskStep(j)

\* the operations of i and j alternate in the history: i, j, i
Interleaved(i, j) ==
    \E y \in 1..Len(dispatched) :
        /\ dispatched[y][1] = j
        /\ \E x \in 1..(y - 1) : dispatched[x][1] = i
        /\ \E z \in (y + 1)..Len(dispatched) : dispatched[z][1] = i

\* what the code does instead: two runners neither of which was suspended at
\* a wait never have their operations interleaved
NeverSuspendedSerialized ==
    \A i, j \in 1..N :
        (i # j /\ \A w \in DOMAIN wstate : w[1] \notin {i, j})
            => ~Interleaved(i, j)

(* C10: when the operation of stage s of record i raises, the runner is      *)
(* Failed, the signal of s stays pending, no later stage of i is invoked or  *)
(* signalled, the signals of the earlier stages stay done, and main has      *)
(* raised when the program ends.                                             *)
C10_FailureStopsRunner ==
    \A i \in 1..N :
        texc[i] = "StageError" =>
            LET s == LastStageOf(i) IN
            /\ tstate[i] = "Failed"
            /\ ~SignalDone(i, s)
            /\ \A e \in configs[i].start_stage .. (s - 1) : SignalDone(i, e)
            /\ \A l \in (s + 1) .. configs[i].end_stage :
                  ~Dispatched(i, l) /\ ~SignalDone(i, l)
            /\ mstate # "Returned"
            /\ pc = "exited" => mstate = "Raised"

\* a runner failed after a successful stage, and the program has ended
C10_Witness ==
    /\ pc = "exited"
    /\ \E i \in 1..N :
          /\ texc[i] = "StageError"
          /\ LastStageOf(i) > configs[i].start_stage
          /\ LastStageOf(i) < configs[i].end_stage

(* C11: every signal a runner waits for exists: when a runner is about to    *)
(* build its stage-3 wait, each provider on its list has an event for stage  *)
(* 3, and no runner ends with the KeyError of a missing event.               *)
AtWait(i) ==
    /\ pc = "loop"
    /\ running = i
    /\ stage_num[i] <= configs[i].end_stage
    /\ MustWait(i)
    /\ ~awaited[i]

C11_AwaitedSignalExists ==
    \A i \in 1..N :
        /\ AtWait(i) =>
              \A d \in Range(WaitTargets(i)) : SyncStage \in DOMAIN stage_events[d]
        /\ texc[i] # "KeyError"

(* C13: a runner waits only in front of stage 3 and only with a dependency   *)
(* list.  A runner without a list, or whose range has no stage 3, creates no *)
(* wait task, is never suspended, never ends by a missing event or by        *)
(* cancellation, and has all its stages invoked unless one of them raises.   *)
NeverWaits(i) ==
    i \notin DOMAIN stage3_dependencies \/ SyncStage \notin StageRange(configs[i])

C13_WaitOnlyAtSyncStage ==
    \A i \in 1..N :
        /\ tstate[i] = "Waiting" =>
              /\ stage_num[i] = SyncStage
              /\ i \in DOMAIN stage3_dependencies
              /\ ~Dispatched(i, SyncStage)
        /\ (Resolved /\ NeverWaits(i)) =>
              /\ tstate[i] \notin {"Waiting", "Cancelled"}
              /\ texc[i] \notin {"KeyError", "CancelledError"}
              /\ \A w \in DOMAIN wstate : w[1] # i
              /\ (pc = "exited" /\ texc[i] = "none") =>
                    tstate[i] = "Completed" /\ AllStagesDispatched(i)

\* a record the resolver gave providers, with the stages 4..5, is Completed
C13_Witness ==
    \E i \in DOMAIN stage3_dependencies :
        /\ SyncStage \notin StageRange(configs[i])
        /\ tstate[i] = "Completed"
        /\ Len(StagesOf(i, dispatched)) = 2

(* C12: no missed wake-up.  A dependent suspended at its stage-3 wait whose  *)
(* providers' stage-3 signals are all done has its stage 3 invoked later,    *)
(* whether it comes before or after its providers in the list; and no wait   *)
(* task is ever left blocked on a signal that is done.                       *)
AllProvidersSignalled(d) ==
    /\ d \in DOMAIN stage3_dependencies
    /\ \A p \in DepsOf(d) : SignalDone(p, SyncStage)

\* d has built its stage-3 wait: one wait task for each provider
ReachedWait(d) == \E p \in DepsOf(d) : <<d, p>> \in DOMAIN wstate

Blocked(d, p) == <<d, p>> \in DOMAIN wstate /\ wstate[<<d, p>>] = "waiting"

C12_NoMissedWakeup ==
    /\ <>(pc \in {"exited", "rejected"})
    /\ [](\A d \in 1..N :
              /\ (ReachedWait(d) /\ AllProvidersSignalled(d)) =>
                    /\ tstate[d] # "Cancelled"
                    /\ pc = "exited" => Dispatched(d, SyncStage)
              /\ \A p \in 1..N : SignalDone(p, SyncStage) => ~Blocked(d, p))

\* a dependent that comes first in the list, and so reached its wait before
\* its provider had run, has had its stage 3 invoked after the provider's
C12_Witness ==
    \E d \in DOMAIN stage3_dependencies : \E p \in DepsOf(d) :
        /\ d < p
        /\ Dispatched(d, SyncStage)
        /\ Position(p, SyncStage) < Position(d, SyncStage)
        /\ Position(d, configs[d].start_stage) < Position(p, configs[p].start_stage)

(* C14: a signal that is done stays done in every step, and set() is reached *)
(* at most once for each signal: no stage of a record is invoked twice.      *)
Invocations(i, s) ==
    Cardinality({x \in 1..Len(dispatched) : dispatched[x] = <<i, s>>})

C14_SignalsMonotonic ==
    /\ [][\A i \in 1..N : \A s \in 1..NumStages :
            SignalDone(i, s) => SignalDone(i, s)']_vars
    /\ [](\A i \in 1..N : \A s \in 1..NumStages : Invocations(i, s) <= 1)

\* a runner has failed at a later stage and its first signal is still done
C14_Witness ==
    \E i \in 1..N :
        /\ tstate[i] = "Failed"
        /\ SignalDone(i, configs[i].start_stage)

(* C15: a signal (i, s) becomes done only in a step of runner i that invokes *)
(* stage s of record i and does not end in failure; a step of a runner       *)
(* leaves the signals of the other records, the dependency lists and the     *)
(* configuration records unchanged.                                          *)
BecomesDone(i, s) == ~SignalDone(i, s) /\ SignalDone(i, s)'

C15_SingleWriter ==
    [][/\ \A i \in 1..N : \A s \in 1..NumStages :
            BecomesDone(i, s) =>
                /\ running = i
                /\ stage_num[i] = s
                /\ Dispatches(i, s)
                /\ tstate'[i] # "Failed"
       /\ running # 0 =>
            /\ configs' = configs
            /\ stage3_dependencies' = stage3_dependencies
            /\ \A j \in 1..N : j # running => stage_events'[j] = stage_events[j]
      ]_vars

\* runner i has marked a stage that record j also has, and j's is pending
C15_Witness ==
    \E i \in 1..N : \E j \in 1..N : \E s \in 1..NumStages :
        /\ i # j
        /\ SignalDone(i, s)
        /\ s \in StageRange(configs[j])
        /\ tstate[j] \in {"NotStarted", "Waiting"}
        /\ ~SignalDone(j, s)

(* C16: when no stage operation raises and the range of every provider has  *)
(* stage 3, every fair run of an accepted batch ends with every runner       *)
(* Completed and main returned, whatever the order of the records; no state  *)
(* of such a run leaves a runner suspended with nothing left to run.         *)
IsProvider(p) == \E i \in 1..N : IsProviderFor(configs[p], configs[i])

ProvidersReachSync ==
    \A p \in 1..N : IsProvider(p) => SyncStage \in StageRange(configs[p])

StageErrorSeen == \E i \in 1..N : texc[i] = "StageError"

AllCompleted ==
    /\ pc = "exited"
    /\ mstate = "Returned"
    /\ \A i \in 1..N : tstate[i] = "Completed"

C16_NoDeadlock ==
    /\ (~HasDuplicate /\ ProvidersReachSync) => <>(StageErrorSeen \/ AllCompleted)
    /\ []((ProvidersReachSync /\ ~StageErrorSeen) =>
              /\ \A i \in 1..N : tstate[i] \notin {"Failed", "Cancelled"}
              /\ pc = "exited" => AllCompleted
              /\ pc = "loop" => ENABLED Next)

\* a batch whose dependent comes before its provider has ended, all Completed
C16_Witness ==
    /\ AllCompleted
    /\ \E d \in DOMAIN stage3_dependencies : \E p \in DepsOf(d) :
          d < p /\ Dispatched(d, SyncStage)

(* C17: the dependency lists have no self-edge and no chain of two edges: a  *)
(* record on some list has no list of its own; so no runner suspended at its *)
(* stage-3 wait waits for a runner that is suspended too.                    *)
C17_EdgesAcyclic ==
    Resolved =>
        /\ stage3_dependencies = identify_dependencies(configs)
        /\ \A i \in DOMAIN stage3_dependencies :
              /\ i \notin DepsOf(i)
              /\ \A p \in DepsOf(i) : p \notin DOMAIN stage3_dependencies
        /\ \A i \in 1..N : tstate[i] = "Waiting" =>
              \A p \in DepsOf(i) : tstate[p] # "Waiting"

\* two records with lists share a provider, and one of them is suspended
C17_Witness ==
    \E i \in DOMAIN stage3_dependencies : \E j \in DOMAIN stage3_dependencies :
        /\ i # j
        /\ DepsOf(i) \cap DepsOf(j) # {}
        /\ tstate[i] = "Waiting"

(* C18: for each record the stages whose signal is done are the first ones   *)
(* of its range, start..k; a signal is done only if its stage was invoked    *)
(* and did not raise; once the runner is Completed every signal of the range *)
(* is done.                                                                  *)
DoneStages(i) == {s \in StageRange(configs[i]) : SignalDone(i, s)}

Raised(i, s) == texc[i] = "StageError" /\ LastStageOf(i) = s

C18_DonePrefix ==
    Resolved =>
        \A i \in 1..N :
            /\ \E m \in (configs[i].start_stage - 1)..configs[i].end_stage :
                  DoneStages(i) = configs[i].start_stage..m
            /\ \A s \in 1..NumStages :
                  SignalDone(i, s) => Dispatched(i, s) /\ ~Raised(i, s)
            /\ tstate[i] = "Completed" => DoneStages(i) = StageRange(configs[i])

\* one runner is Completed, another failed at its second stage
C18_Witness ==
    \E i \in 1..N : \E j \in 1..N :
        /\ tstate[i] = "Completed"
        /\ tstate[j] = "Failed"
        /\ DoneStages(j) = {configs[j].start_stage}

====
